---- MODULE Spec2Model ----
(***************************************************************************)
(* BriefCard link-to-card backend, as written in                           *)
(* tech_implementation_guide.md: the POST /api/bookmarks handler           *)
(* (create_bookmark), the crawler's result contract (extract_page_data),   *)
(* the bookmarks table, and the LINE service helpers (is_url,              *)
(* create_bookmark_card).                                                  *)
(*                                                                         *)
(* Python values are tagged records: a str is [k |-> "str", v |-> <<..>>]  *)
(* with v its sequence of Unicode codepoints, None is PyNone, and a dict   *)
(* key that is missing maps to Absent.                                     *)
(***************************************************************************)
EXTENDS Integers, Sequences, FiniteSets, TLC

VARIABLES
    bookmarks,      \* rows of table bookmarks, in insertion order
    nextId,         \* next value of gen_random_uuid()
    now,            \* database clock behind DEFAULT now()
    pc,             \* per worker: position inside create_bookmark
    req,            \* per worker: the (url, user_id) arguments, and the clock at arrival
    crawl,          \* per worker: what extract_page_data returned
    store,          \* per worker: how the insert ended
    resp,           \* per worker: the HTTP response
    received,       \* number of requests accepted so far
    clock,          \* wall clock, in hours
    crawls,         \* number of crawler.arun calls made so far
    lastCrawl,      \* per URL: the hour its latest successful crawl ended, -1 if none
    bookmark_data,  \* argument of create_bookmark_card
    card,           \* what create_bookmark_card returned (or raised)
    cardPc,         \* position of the create_bookmark_card call
    words,          \* the pieces the message text is made of
    text,           \* argument of is_url: the message text
    urlRet,         \* return value of is_url
    urlPc,          \* position of the is_url call
    stage,          \* per request: the orchestrator's stage
    link,           \* per request: the URL chosen from the LinkRequest
    fetchOut,       \* per request: how Fetching ended
    sumOut,         \* per request: how Summarizing ended, or Skipped
    page,           \* per request: the PageData in hand
    served,         \* per request: where the PageData came from
    persist,        \* per request: state of the Bookmark Store upsert
    send,           \* per request: state of card composition and transmission
    result,         \* per request: what the caller was told
    cache,          \* Dedup/Cache Store: normalized URL -> entry
    saved,          \* Bookmark Store: normalized URLs that have a bookmark
    active,         \* per FAQ item: has class 'active'
    maxHeight,      \* per FAQ item: answer.style.maxHeight
    transform,      \* per FAQ item: answer.style.transform
    contentHeight,  \* per FAQ item: the --content-height property
    event,          \* the last event the FAQ listeners handled
    wait,           \* debounce: the wait argument, in ticks
    timeout,        \* debounce: the timer id held in timeout (0: undefined)
    nextTimer,      \* debounce: the id setTimeout returns next
    laterTimers,    \* debounce: pending timers
    debounced,      \* debounce: the arguments func has run with, in order
    dCalls,         \* debounce: calls of executedFunction so far
    sinceCall,      \* debounce: ticks since the last call, up to wait
    lastArgs,       \* debounce: arguments of the last call
    ranSince,       \* debounce: func has run since the last call
    limit,          \* throttle: the limit argument, in ticks
    inThrottle,     \* throttle: the flag
    resetTimers,    \* throttle: pending timers
    throttled,      \* throttle: the arguments func has run with, in order
    tCalls,         \* throttle: calls of the wrapper so far
    sinceRun,       \* throttle: ticks since func last ran, up to limit
    lastCall,       \* throttle: arguments of the last call
    currentUser,    \* app.js: let currentUser
    newsletterUser, \* app.js: window.newsletterUser
    initialized,    \* app.js: initializeApp has run
    formData,       \* app.js: the form as handleSubscription last read it
    webhooks,       \* app.js: webhook POSTs in flight
    alerts,         \* app.js: alert dialogs shown, by kind
    toast,          \* app.js: #success-toast
    toastTimers,    \* app.js: pending toast-hiding timers
    dashboard,      \* app.js: #dashboard-content as last rendered
    renders,        \* app.js: calls of renderDashboard
    scrollTimers,   \* app.js: pending scroll timers
    scrolledTo,     \* app.js: the section last scrolled to
    submits,        \* app.js: calls of handleSubscription so far
    unsubscribes    \* app.js: calls of unsubscribe so far

apiVars  == <<bookmarks, nextId, now, pc, req, crawl, store, resp, received,
              clock, crawls, lastCrawl>>
cardVars == <<bookmark_data, card, cardPc>>
urlVars  == <<words, text, urlRet, urlPc>>
pipeVars == <<stage, link, fetchOut, sumOut, page, served, persist, send, result,
              cache, saved>>
faqVars  == <<active, maxHeight, transform, contentHeight, event>>
debounceVars == <<wait, timeout, nextTimer, laterTimers, debounced, dCalls, sinceCall,
                  lastArgs, ranSince>>
throttleVars == <<limit, inThrottle, resetTimers, throttled, tCalls, sinceRun, lastCall>>
newsVars == <<currentUser, newsletterUser, initialized, formData, webhooks, alerts,
              toast, toastTimers, dashboard, renders, scrollTimers, scrolledTo,
              submits, unsubscribes>>
webVars  == <<faqVars, debounceVars, throttleVars, newsVars>>
backVars == <<apiVars, cardVars, urlVars, pipeVars>>
vars     == <<bookmarks, nextId, now, pc, req, crawl, store, resp, received,
              clock, crawls, lastCrawl,
              bookmark_data, card, cardPc, words, text, urlRet, urlPc,
              stage, link, fetchOut, sumOut, page, served, persist, send, result,
              cache, saved,
              active, maxHeight, transform, contentHeight, event,
              wait, timeout, nextTimer, laterTimers, debounced, dCalls, sinceCall,
              lastArgs, ranSince,
              limit, inThrottle, resetTimers, throttled, tCalls, sinceRun, lastCall,
              currentUser, newsletterUser, initialized, formData, webhooks, alerts,
              toast, toastTimers, dashboard, renders, scrollTimers, scrolledTo,
              submits, unsubscribes>>

----------------------------------------------------------------------------
(* Bounds. *)

NumWorkers  == 2     \* concurrent executions of create_bookmark
MaxRequests == 2     \* requests accepted in one behaviour
MaxExtra    == 2     \* how far past the preview limit an input text runs
MaxTokens   == 4     \* tokens in a message text handed to is_url
MaxTicks    == 2     \* steps of the wall clock in one behaviour
TickHours   == 13    \* hours in one step of the wall clock
NumItems    == 3     \* FAQ items on the page
MaxWait     == 2     \* longest wait or limit handed to debounce and throttle, in ticks
MaxCalls    == 3     \* calls of a debounced or throttled function in one behaviour
MaxUserOps  == 2     \* submits and unsubscribes in one behaviour

----------------------------------------------------------------------------
(* Python values. *)

PyNone  == [k |-> "none", v |-> <<>>]
Absent  == [k |-> "absent", v |-> <<>>]
Str(s)  == [k |-> "str", v |-> s]

IsStr(x)  == x.k = "str"
\* Python truthiness of an optional string: None and '' are falsy.
Truthy(x) == x.k = "str" /\ x.v # <<>>

Min(a, b) == IF a <= b THEN a ELSE b

\* s[:n]
Take(s, n) == SubSeq(s, 1, Min(n, Len(s)))

\* n codepoints cycling through the pattern pat.
Repeat(pat, n) == [i \in 1..n |-> pat[((i - 1) % Len(pat)) + 1]]

----------------------------------------------------------------------------
(* POST /api/bookmarks *)

Workers == 1..NumWorkers
Urls    == {"https://example.com/a", "https://slow.example/x"}
Users   == {"owner1", "owner2"}

TitleA   == Str(<<65>>)
DescA    == Str(<<100, 101, 115, 99>>)
BodyA    == Str(<<98, 111, 100, 121>>)
HeroA    == Str(<<104, 46, 112, 110, 103>>)

\* What the LLM extraction hands back as result.extracted_content: the
\* WebPageData fields create_bookmark reads.  main_image is Optional, and a
\* key the extractor leaves out is Absent.
WebPageData ==
    { [title |-> TitleA, description |-> DescA, content_markdown |-> BodyA, main_image |-> HeroA],
      [title |-> TitleA, description |-> DescA, content_markdown |-> Str(<<>>), main_image |-> PyNone],
      [title |-> TitleA, description |-> DescA, content_markdown |-> BodyA, main_image |-> Absent] }

CrawlErrors == {"timeout", "unreachable"}

\* extract_page_data: {"success": True, "data": ...} or {"success": False, "error": ...}
extract_page_data ==
    { [success |-> TRUE, data |-> d, error |-> ""] : d \in WebPageData }
      \cup
    { [success |-> FALSE, data |-> [title |-> Absent, description |-> Absent,
                                    content_markdown |-> Absent, main_image |-> Absent],
       error |-> e] : e \in CrawlErrors }

NoCrawl == [success |-> FALSE, data |-> [title |-> Absent, description |-> Absent,
                                         content_markdown |-> Absent, main_image |-> Absent],
            error |-> "none"]

NoRow == [id |-> 0, user_id |-> "", folder_id |-> PyNone, url |-> "", title |-> Absent,
          description |-> Absent, content_markdown |-> Absent, image_url |-> Absent,
          summary |-> PyNone, notes |-> PyNone, tags |-> PyNone,
          created_at |-> 0, updated_at |-> 0]

NoResp == [status |-> 0, detail |-> "", bookmark |-> NoRow]

\* raise HTTPException(status_code, detail) reaching the client.
HTTPException(code, d) == [status |-> code, detail |-> d, bookmark |-> NoRow]

\* except Exception as e: raise HTTPException(status_code=500, detail=str(e)).
\* HTTPException is itself an Exception, so the 400 raised inside the try
\* block is caught here as well.
ExceptHandler(e) == HTTPException(500, e.detail)

\* page_data["title"], ...: a missing key raises KeyError.
HasKeys(d) == /\ d.title # Absent
              /\ d.description # Absent
              /\ d.content_markdown # Absent
              /\ d.main_image # Absent

\* supabase.table("bookmarks").insert(bookmark_data): id, created_at and
\* updated_at come from the column defaults; no column is UNIQUE besides id.
\* folder_id, summary, notes and tags are not in bookmark_data and have no
\* default, so they are NULL.
InsertRow(u, usr, d) ==
    [id |-> nextId, user_id |-> usr, folder_id |-> PyNone, url |-> u, title |-> d.title,
     description |-> d.description, content_markdown |-> d.content_markdown,
     image_url |-> d.main_image, summary |-> PyNone, notes |-> PyNone, tags |-> PyNone,
     created_at |-> now, updated_at |-> now]

ApiInit ==
    /\ bookmarks = <<>>
    /\ nextId = 1
    /\ now = 1
    /\ pc = [w \in Workers |-> "idle"]
    /\ req = [w \in Workers |-> [url |-> "", user_id |-> "", started |-> 0]]
    /\ crawl = [w \in Workers |-> NoCrawl]
    /\ store = [w \in Workers |-> "none"]
    /\ resp = [w \in Workers |-> NoResp]
    /\ received = 0
    /\ clock = 0
    /\ crawls = 0
    /\ lastCrawl = [u \in Urls |-> -1]

\* The request arrives; the handler runs up to `await extract_page_data(url)`,
\* which starts crawler.arun with cache_mode=CacheMode.BYPASS: the page is
\* crawled on every call.
Receive(w, u, usr) ==
    /\ pc[w] = "idle"
    /\ received < MaxRequests
    /\ pc' = [pc EXCEPT ![w] = "crawling"]
    /\ req' = [req EXCEPT ![w] = [url |-> u, user_id |-> usr, started |-> now]]
    /\ received' = received + 1
    /\ crawls' = crawls + 1
    /\ UNCHANGED <<bookmarks, nextId, now, crawl, store, resp, clock, lastCrawl>>

\* The crawl reports failure: raise HTTPException(400), caught by the handler's
\* own except clause.
CrawlFailed(w, r) ==
    /\ pc[w] = "crawling"
    /\ ~r.success
    /\ crawl' = [crawl EXCEPT ![w] = r]
    /\ resp' = [resp EXCEPT ![w] = ExceptHandler(HTTPException(400, "cannot process url"))]
    /\ pc' = [pc EXCEPT ![w] = "done"]
    /\ UNCHANGED <<bookmarks, nextId, now, req, store, received, clock, crawls, lastCrawl>>

\* The crawl succeeded but the extracted dict lacks a key the handler reads.
CrawlKeyError(w, r) ==
    /\ pc[w] = "crawling"
    /\ r.success
    /\ ~HasKeys(r.data)
    /\ crawl' = [crawl EXCEPT ![w] = r]
    /\ resp' = [resp EXCEPT ![w] = ExceptHandler([detail |-> "KeyError"])]
    /\ pc' = [pc EXCEPT ![w] = "done"]
    /\ lastCrawl' = [lastCrawl EXCEPT ![req[w].url] = clock]
    /\ UNCHANGED <<bookmarks, nextId, now, req, store, received, clock, crawls>>

\* The crawl succeeded and the insert went through: 200 with the new row.
SaveOk(w, r) ==
    /\ pc[w] = "crawling"
    /\ r.success
    /\ HasKeys(r.data)
    /\ LET row == InsertRow(req[w].url, req[w].user_id, r.data) IN
         /\ bookmarks' = Append(bookmarks, row)
         /\ resp' = [resp EXCEPT ![w] = [status |-> 200, detail |-> "", bookmark |-> row]]
    /\ nextId' = nextId + 1
    /\ now' = now + 1
    /\ crawl' = [crawl EXCEPT ![w] = r]
    /\ store' = [store EXCEPT ![w] = "ok"]
    /\ pc' = [pc EXCEPT ![w] = "done"]
    /\ lastCrawl' = [lastCrawl EXCEPT ![req[w].url] = clock]
    /\ UNCHANGED <<req, received, clock, crawls>>

\* The crawl succeeded and the insert raised (storage unavailable).
SaveFailed(w, r) ==
    /\ pc[w] = "crawling"
    /\ r.success
    /\ HasKeys(r.data)
    /\ crawl' = [crawl EXCEPT ![w] = r]
    /\ store' = [store EXCEPT ![w] = "unavailable"]
    /\ resp' = [resp EXCEPT ![w] = ExceptHandler([detail |-> "storage unavailable"])]
    /\ pc' = [pc EXCEPT ![w] = "done"]
    /\ lastCrawl' = [lastCrawl EXCEPT ![req[w].url] = clock]
    /\ UNCHANGED <<bookmarks, nextId, now, req, received, clock, crawls>>

\* The response has been delivered; the worker takes the next request.
Deliver(w) ==
    /\ pc[w] = "done"
    /\ pc' = [pc EXCEPT ![w] = "idle"]
    /\ req' = [req EXCEPT ![w] = [url |-> "", user_id |-> "", started |-> 0]]
    /\ crawl' = [crawl EXCEPT ![w] = NoCrawl]
    /\ store' = [store EXCEPT ![w] = "none"]
    /\ resp' = [resp EXCEPT ![w] = NoResp]
    /\ UNCHANGED <<bookmarks, nextId, now, received, clock, crawls, lastCrawl>>

\* Time passes.
Tick ==
    /\ clock < MaxTicks * TickHours
    /\ clock' = clock + TickHours
    /\ UNCHANGED <<bookmarks, nextId, now, pc, req, crawl, store, resp, received,
                   crawls, lastCrawl>>

----------------------------------------------------------------------------
(* LineService.create_bookmark_card *)

PreviewLimit == 100
Ellipsis     == <<46, 46, 46>>
DefaultIcon  == <<104, 116, 116, 112, 115, 58, 47, 47, 121, 111, 117, 114, 45, 100, 111,
                  109, 97, 105, 110, 46, 99, 111, 109, 47, 105, 99, 111, 110, 46, 112, 110, 103>>
EditPrefix   == <<104, 116, 116, 112, 115, 58, 47, 47, 121, 111, 117, 114, 45, 108, 105,
                  102, 102, 45, 97, 112, 112, 46, 99, 111, 109, 47, 101, 100, 105, 116, 47>>
SavePrefix   == <<115, 97, 118, 101, 124>>
AltPrefix    == <<128203, 32>>
NoneText     == <<78, 111, 110, 101>>

\* What an f-string puts in place of {x}.
Format(x) == IF IsStr(x) THEN x.v ELSE NoneText

\* dict.get(key, default): the default only stands in for a missing key.
Get(x, default) == IF x = Absent THEN default ELSE x

\* bookmark_data.get('content_markdown', bookmark_data.get('description', ''))
CardMainContent_DescriptionFirst(bd) == Get(bd.description, Get(bd.content_markdown, Str(<<>>)))
CardMainContent(bd) == Get(bd.content_markdown, Get(bd.description, Str(<<>>)))

\* main_content[:100] + "..." if len(main_content) > 100 else main_content
CardPreview(s) == IF Len(s) > PreviewLimit THEN Take(s, PreviewLimit) \o Ellipsis ELSE s

\* bookmark_data.get('image_url') or bookmark_data.get('preview_image') or icon.png
CardImage_GetDefault(bd) == Get(bd.image_url, Get(bd.preview_image, Str(DefaultIcon)))
CardImage(bd) ==
    IF Truthy(Get(bd.image_url, PyNone)) THEN bd.image_url
    ELSE IF Truthy(Get(bd.preview_image, PyNone)) THEN bd.preview_image
    ELSE Str(DefaultIcon)

Raised(e) == [ok |-> FALSE, error |-> e]

\* The three buttons, in document order: "edit card" in the body (primary,
\* opens the LIFF edit page), "read original" (secondary, opens the URL) and
\* "save bookmark" (secondary, postback) in the footer.
CardButtons_ReadPrimary(bd) ==
    << [style |-> "secondary", type |-> "uri", label |-> "edit",
        target |-> EditPrefix \o Format(bd.id)],
       [style |-> "primary", type |-> "uri", label |-> "read",
        target |-> Format(bd.url)],
       [style |-> "secondary", type |-> "postback", label |-> "save",
        target |-> SavePrefix \o Format(bd.id)] >>
CardButtons(bd) ==
    << [style |-> "primary", type |-> "uri", label |-> "edit",
        target |-> EditPrefix \o Format(bd.id)],
       [style |-> "secondary", type |-> "uri", label |-> "read",
        target |-> Format(bd.url)],
       [style |-> "secondary", type |-> "postback", label |-> "save",
        target |-> SavePrefix \o Format(bd.id)] >>

\* The Flex message: hero image, title, preview text, and the three buttons
\* (edit in the body, read-original and save in the footer).
FlexCard(bd) ==
    [ok      |-> TRUE,
     altText |-> AltPrefix \o Format(bd.title),
     hero    |-> CardImage(bd),
     title   |-> bd.title,
     text    |-> Str(CardPreview(CardMainContent(bd).v)),
     buttons |-> CardButtons(bd)]

\* Statement order decides which exception is met first: len(None), then
\* bookmark_data['title'], ['id'], ['url'].
create_bookmark_card(bd) ==
    IF ~IsStr(CardMainContent(bd)) THEN Raised("TypeError")
    ELSE IF bd.title = Absent THEN Raised("KeyError: title")
    ELSE IF bd.id = Absent THEN Raised("KeyError: id")
    ELSE IF bd.url = Absent THEN Raised("KeyError: url")
    ELSE FlexCard(bd)

\* Input texts: ASCII, CJK, and mixed one- to four-byte codepoints.
Patterns == { <<98>>, <<20013>>, <<97, 233, 20013, 128203>> }
Lengths  == {0, 1, PreviewLimit - 1, PreviewLimit} \cup
            { PreviewLimit + i : i \in 1..MaxExtra }
Texts    == { Repeat(pt, n) : pt \in Patterns, n \in Lengths }

CardInputs ==
    [ id               : {Str(<<55>>), Absent},
      url              : {Str(<<104, 116, 116, 112, 58, 47, 47, 117>>), Absent},
      title            : {TitleA, Str(<<>>), PyNone, Absent},
      description      : {DescA, Str(Repeat(<<100>>, PreviewLimit + 1)), PyNone, Absent},
      content_markdown : { Str(t) : t \in Texts } \cup {PyNone, Absent},
      summary          : {Str(<<115, 117, 109>>), Absent},
      image_url        : {HeroA, Str(<<>>), PyNone, Absent},
      preview_image    : {Str(<<112, 46, 112, 110, 103>>), Str(<<>>), Absent} ]

CardIdle == /\ bookmark_data = Absent
            /\ card = Absent
            /\ cardPc = "none"

CardInit == /\ bookmark_data \in CardInputs
            /\ card = Absent
            /\ cardPc = "called"

ComposeCard ==
    /\ cardPc = "called"
    /\ card' = create_bookmark_card(bookmark_data)
    /\ cardPc' = "returned"
    /\ UNCHANGED bookmark_data

----------------------------------------------------------------------------
(* LineService.is_url *)

Http     == <<104, 116, 116, 112>>
Colon2   == <<58, 47, 47>>
LetterS  == 115

\* Message pieces: the two schemes the pattern accepts, an upper-case and two
\* foreign schemes, a letter, a space and an ideographic space.
WHttp    == <<104, 116, 116, 112, 58, 47, 47>>
WHttps   == <<104, 116, 116, 112, 115, 58, 47, 47>>
WUpper   == <<72, 84, 84, 80, 58, 47, 47>>
WFtp     == <<102, 116, 112, 58, 47, 47>>
WMailto  == <<109, 97, 105, 108, 116, 111, 58>>
WLetter  == <<97>>
WSpace   == <<32>>
WIdeoSp  == <<12288>>
Pieces   == {WHttp, WHttps, WUpper, WFtp, WMailto, WLetter, WSpace, WIdeoSp}

\* \s on a str pattern: the Unicode whitespace characters.
IsSpace(c) == \/ c \in 9..13
              \/ c \in 28..32
              \/ c \in {133, 160, 5760, 8232, 8233, 8239, 8287, 12288}
              \/ c \in 8192..8202

StartsAt(t, i, pre) == /\ i + Len(pre) - 1 <= Len(t)
                       /\ SubSeq(t, i, i + Len(pre) - 1) = pre

NonSpaceAt(t, j) == j <= Len(t) /\ ~IsSpace(t[j])

\* https?://[^\s]+ matched at position i: "http", an optional "s", "://",
\* and at least one non-whitespace character.
MatchAt(t, i) ==
    /\ StartsAt(t, i, Http)
    /\ \/ StartsAt(t, i + 4, Colon2) /\ NonSpaceAt(t, i + 7)
       \/ /\ i + 4 <= Len(t)
          /\ t[i + 4] = LetterS
          /\ StartsAt(t, i + 5, Colon2)
          /\ NonSpaceAt(t, i + 8)

\* bool(re.search(url_pattern, text)): a match anywhere in the text.
is_url_MatchAtStart(t) == MatchAt(t, 1)
is_url(t) == \E i \in 1..Len(t) : MatchAt(t, i)

RECURSIVE Concat(_)
Concat(ws) == IF ws = <<>> THEN <<>> ELSE Head(ws) \o Concat(Tail(ws))

Messages == UNION { [1..n -> Pieces] : n \in 0..MaxTokens }

PyBool(b) == [k |-> "bool", v |-> b]

UrlIdle == /\ words = <<>>
           /\ text = <<>>
           /\ urlRet = PyBool(FALSE)
           /\ urlPc = "none"

UrlInit == /\ words \in Messages
           /\ text = Concat(words)
           /\ urlRet = PyBool(FALSE)
           /\ urlPc = "called"

CallIsUrl ==
    /\ urlPc = "called"
    /\ urlRet' = PyBool(is_url(text))
    /\ urlPc' = "returned"
    /\ UNCHANGED <<words, text>>

----------------------------------------------------------------------------
(* Pipeline Orchestrator, Dedup/Cache Store and Bookmark Store.  The guide  *)
(* calls line_service.handle_webhook but does not define it; this section  *)
(* follows the orchestrator's written contract.                            *)

\* The fixed pool of concurrent pipeline executions.
PoolSize == 2

Requests == 1 .. PoolSize

\* A URL, split into the parts normalization looks at (port 0: none given).
Url(h, p, pa, q) == [host |-> h, port |-> p, path |-> pa, query |-> q]

NoUrl == Url("", 0, "", "")

\* Two spellings of one page.
RawUrls == { Url("Example.com", 80, "/a", "utm_source=x"),
             Url("example.com", 0, "/a", "") }

\* Every key the cache can be asked for.
CacheKeys == RawUrls \cup { Url("example.com", 0, "/b", "id=1") }

DefaultPort == 80

\* The fixed denylist of tracking-only query strings.
TrackingOnly == {"utm_source=x"}

LowerCase(h) == IF h = "Example.com" THEN "example.com" ELSE h

\* Lower-case host, strip default ports, strip tracking-only query parameters.
Normalize(u) ==
    Url(LowerCase(u.host),
        IF u.port = DefaultPort THEN 0 ELSE u.port,
        u.path,
        IF u.query \in TrackingOnly THEN "" ELSE u.query)

\* PageData; "" is an absent field.
PageData(c, t, d, h, x) ==
    [canonicalUrl |-> c, title |-> t, description |-> d,
     heroImageUrl |-> h, contentText |-> x]

NoPage == PageData(NoUrl, "", "", "", "")

\* What the Page Fetcher can extract from the page behind u.
PageFetcher(u) ==
    { PageData(Normalize(u), "Title", "Description", "https://img/hero.png", "Body"),
      PageData(Normalize(u), "Title", "", "", "") }

FetchFailures   == {"FetchTimeout", "FetchError"}
SummaryOutcomes == {"SummaryOk", "SummaryTimeout", "SummaryError"}

\* Cache entries; fresh is FALSE once the entry is older than the TTL.
NoEntry == [page |-> NoPage, fresh |-> FALSE]

\* The cache is keyed by normalized URL.
CacheKey(u) == Normalize(u)

\* Read-through lookup: an expired entry is treated as absent.
CacheHit(u) == cache[CacheKey(u)].fresh

CachePut_Skip(c, k, pd) == c

CachePut_Merge(c, k, pd) ==
    LET old == c[k].page
        Pick(new, was) == IF new # "" THEN new ELSE was
    IN  [c EXCEPT ![k] =
            [page  |-> PageData(pd.canonicalUrl,
                                Pick(pd.title, old.title),
                                Pick(pd.description, old.description),
                                Pick(pd.heroImageUrl, old.heroImageUrl),
                                Pick(pd.contentText, old.contentText)),
             fresh |-> TRUE]]

\* A new fetch overwrites the entry under its key.
CachePut(c, k, pd) == [c EXCEPT ![k] = [page |-> pd, fresh |-> TRUE]]

StageAfterFetch_Always(pd) == "Summarizing"

\* Summarizing only if the content text is non-empty.
StageAfterFetch(pd) == IF pd.contentText # "" THEN "Summarizing" ELSE "Composing"

PipeIdle ==
    /\ stage   = [r \in Requests |-> "Idle"]
    /\ link    = [r \in Requests |-> NoUrl]
    /\ fetchOut = [r \in Requests |-> "none"]
    /\ sumOut  = [r \in Requests |-> "none"]
    /\ page    = [r \in Requests |-> NoPage]
    /\ served  = [r \in Requests |-> "none"]
    /\ persist = [r \in Requests |-> "notStarted"]
    /\ send    = [r \in Requests |-> "notStarted"]
    /\ result  = [r \in Requests |-> "none"]
    /\ cache   = [k \in CacheKeys |-> NoEntry]
    /\ saved   = {}

PipeInit == PipeIdle

\* What a request holds once its PageData pd is known.
Fetched(r, pd, from) ==
    /\ page'     = [page EXCEPT ![r] = pd]
    /\ served'   = [served EXCEPT ![r] = from]
    /\ fetchOut' = [fetchOut EXCEPT ![r] = "FetchOk"]
    /\ stage'    = [stage EXCEPT ![r] = StageAfterFetch(pd)]
    /\ sumOut'   = [sumOut EXCEPT ![r] =
                       IF StageAfterFetch(pd) = "Summarizing" THEN "none" ELSE "Skipped"]

\* A LinkRequest for u starts: Started, then the read-through cache lookup.
Accept(r, u) ==
    /\ stage[r] \in {"Idle", "Done"}
    /\ link'    = [link EXCEPT ![r] = u]
    /\ persist' = [persist EXCEPT ![r] = "notStarted"]
    /\ send'    = [send EXCEPT ![r] = "notStarted"]
    /\ result'  = [result EXCEPT ![r] = "none"]
    /\ IF CacheHit(u)
          THEN Fetched(r, cache[CacheKey(u)].page, "cache")
          ELSE /\ stage'    = [stage EXCEPT ![r] = "Fetching"]
               /\ fetchOut' = [fetchOut EXCEPT ![r] = "none"]
               /\ sumOut'   = [sumOut EXCEPT ![r] = "none"]
               /\ page'     = [page EXCEPT ![r] = NoPage]
               /\ served'   = [served EXCEPT ![r] = "none"]
    /\ UNCHANGED <<cache, saved>>

\* The Page Fetcher returns PageData: cache it, then summarize or skip.
FetchOk(r, pd) ==
    /\ stage[r] = "Fetching"
    /\ pd \in PageFetcher(link[r])
    /\ cache' = CachePut(cache, CacheKey(link[r]), pd)
    /\ Fetched(r, pd, "fetcher")
    /\ UNCHANGED <<link, persist, send, result, saved>>

\* The Page Fetcher fails: skip Summarizing, compose from the raw URL.
FetchFails(r, f) ==
    /\ stage[r] = "Fetching"
    /\ fetchOut' = [fetchOut EXCEPT ![r] = f]
    /\ sumOut'   = [sumOut EXCEPT ![r] = "Skipped"]
    /\ stage'    = [stage EXCEPT ![r] = "Composing"]
    /\ UNCHANGED <<link, page, served, persist, send, result, cache, saved>>

SummaryReturns_Refetch(r, o) ==
    /\ stage[r] = "Summarizing"
    /\ sumOut' = [sumOut EXCEPT ![r] = o]
    /\ stage'  = [stage EXCEPT ![r] = IF o = "SummaryOk" THEN "Composing" ELSE "Fetching"]
    /\ UNCHANGED <<link, fetchOut, page, served, persist, send, result, cache, saved>>

\* The Summarizer returns or fails: either way on to Composing.
SummaryReturns(r, o) ==
    /\ stage[r] = "Summarizing"
    /\ sumOut' = [sumOut EXCEPT ![r] = o]
    /\ stage'  = [stage EXCEPT ![r] = "Composing"]
    /\ UNCHANGED <<link, fetchOut, page, served, persist, send, result, cache, saved>>

DeadlineExpires_Fatal(r) ==
    /\ stage[r] \in {"Fetching", "Summarizing"}
    /\ fetchOut' = [fetchOut EXCEPT ![r] =
                       IF stage[r] = "Fetching" THEN "DeadlineExceeded" ELSE @]
    /\ sumOut'   = [sumOut EXCEPT ![r] =
                       IF stage[r] = "Fetching" THEN "Skipped" ELSE "DeadlineExceeded"]
    /\ stage'    = [stage EXCEPT ![r] = "Done"]
    /\ result'   = [result EXCEPT ![r] = "error"]
    /\ UNCHANGED <<link, page, served, persist, send, cache, saved>>

\* The end-to-end budget runs out: cancel the running call, go to Composing.
DeadlineExpires(r) ==
    /\ stage[r] \in {"Fetching", "Summarizing"}
    /\ fetchOut' = [fetchOut EXCEPT ![r] =
                       IF stage[r] = "Fetching" THEN "DeadlineExceeded" ELSE @]
    /\ sumOut'   = [sumOut EXCEPT ![r] =
                       IF stage[r] = "Fetching" THEN "Skipped" ELSE "DeadlineExceeded"]
    /\ stage'    = [stage EXCEPT ![r] = "Composing"]
    /\ UNCHANGED <<link, page, served, persist, send, result, cache, saved>>

\* upsert(ownerId, normalizedUrl, fields) is issued.
StartPersist(r) ==
    /\ stage[r] = "Composing"
    /\ persist[r] = "notStarted"
    /\ persist' = [persist EXCEPT ![r] = "running"]
    /\ UNCHANGED <<stage, link, fetchOut, sumOut, page, served, send, result, cache, saved>>

PersistOk(r) ==
    /\ persist[r] = "running"
    /\ persist' = [persist EXCEPT ![r] = "ok"]
    /\ saved'   = saved \cup {Normalize(link[r])}
    /\ UNCHANGED <<stage, link, fetchOut, sumOut, page, served, send, result, cache>>

\* StorageUnavailable.
PersistFails(r) ==
    /\ persist[r] = "running"
    /\ persist' = [persist EXCEPT ![r] = "failed"]
    /\ UNCHANGED <<stage, link, fetchOut, sumOut, page, served, send, result, cache, saved>>

\* Card composition starts.
StartCard(r) ==
    /\ stage[r] = "Composing"
    /\ send[r] = "notStarted"
    /\ send' = [send EXCEPT ![r] = "composing"]
    /\ UNCHANGED <<stage, link, fetchOut, sumOut, page, served, persist, result, cache, saved>>

\* The composed card is transmitted.
Transmit(r) ==
    /\ send[r] = "composing"
    /\ send' = [send EXCEPT ![r] = "sent"]
    /\ UNCHANGED <<stage, link, fetchOut, sumOut, page, served, persist, result, cache, saved>>

BothCompleted_CardOnly(r) == send[r] = "sent"

\* Persistence and transmission have both completed.
BothCompleted(r) == send[r] = "sent" /\ persist[r] \in {"ok", "failed"}

\* The request is Done and the caller gets its answer.
Finish(r) ==
    /\ stage[r] = "Composing"
    /\ BothCompleted(r)
    /\ stage'  = [stage EXCEPT ![r] = "Done"]
    /\ result' = [result EXCEPT ![r] = IF persist[r] = "failed" THEN "error" ELSE "saved"]
    /\ link'     = [link EXCEPT ![r] = NoUrl]
    /\ fetchOut' = [fetchOut EXCEPT ![r] = "none"]
    /\ sumOut'   = [sumOut EXCEPT ![r] = "none"]
    /\ page'     = [page EXCEPT ![r] = NoPage]
    /\ served'   = [served EXCEPT ![r] = "none"]
    /\ UNCHANGED <<persist, send, cache, saved>>

\* The TTL of the entry under k runs out.
Expire(k) ==
    /\ cache[k].fresh
    /\ cache' = [cache EXCEPT ![k].fresh = FALSE]
    /\ UNCHANGED <<stage, link, fetchOut, sumOut, page, served, persist, send, result, saved>>

----------------------------------------------------------------------------
(* FAQ accordion: initFAQ, openItem, closeItem, initKeyboardNavigation. *)

\* The .faq-item elements, in document order.
Items == 1 .. NumItems

\* A CSS length in px, and a style property that was never assigned.
Px(n)   == [unit |-> "px", n |-> n]
NoValue == [unit |-> "", n |-> 0]

\* content.scrollHeight of an answer's paragraph.
ScrollHeights == {0, 48}

NoEvent        == [type |-> "none", key |-> "", item |-> 0]
ClickEvent(i)  == [type |-> "click", key |-> "", item |-> i]
KeyEvent(k, i) == [type |-> "keydown", key |-> k, item |-> i]

\* The part of the page the handlers read and write.
Dom == [active |-> active, maxHeight |-> maxHeight, transform |-> transform]

\* item.classList.add('active'); answer.style.maxHeight = contentHeight.
openItem(d, i) ==
    [d EXCEPT !.active[i] = TRUE,
              !.maxHeight[i] = contentHeight[i],
              !.transform[i] = "translateZ(0)"]

closeItem_KeepClass(d, i) == [d EXCEPT !.maxHeight[i] = Px(0)]

\* answer.style.maxHeight = '0px'; item.classList.remove('active').
closeItem(d, i) ==
    [d EXCEPT !.maxHeight[i] = Px(0),
              !.active[i] = FALSE]

\* faqItems.forEach(otherItem => ...): close every other active item.
RECURSIVE CloseOthers(_, _, _)
CloseOthers(d, i, rest) ==
    IF rest = {} THEN d
    ELSE LET j == CHOOSE x \in rest : \A y \in rest : x <= y
         IN  CloseOthers(IF j # i /\ d.active[j] THEN closeItem(d, j) ELSE d,
                         i, rest \ {j})

\* The click listener of item i's question.
OnClick(d, i) ==
    LET isActive == d.active[i]
        d1 == CloseOthers(d, i, Items)
    IN  IF isActive THEN closeItem(d1, i) ELSE openItem(d1, i)

\* document.querySelector('.faq-item.active'): the first one, 0 if none.
ActiveFAQ(d) ==
    IF \E i \in Items : d.active[i]
       THEN CHOOSE i \in Items : d.active[i] /\ \A j \in Items : d.active[j] => i <= j
       ELSE 0

\* The keydown listener's Escape branch: only the class is removed.
OnEscape(d) ==
    IF ActiveFAQ(d) # 0 THEN [d EXCEPT !.active[ActiveFAQ(d)] = FALSE] ELSE d

FaqIdle ==
    /\ active = [i \in Items |-> FALSE]
    /\ maxHeight = [i \in Items |-> NoValue]
    /\ transform = [i \in Items |-> ""]
    /\ contentHeight = [i \in Items |-> NoValue]
    /\ event = NoEvent

\* After initFAQ: the classes are the markup's, --content-height is set.
FaqInit ==
    /\ active \in [Items -> BOOLEAN]
    /\ maxHeight = [i \in Items |-> NoValue]
    /\ transform = [i \in Items |-> ""]
    /\ contentHeight \in [Items -> {Px(h) : h \in ScrollHeights}]
    /\ event = NoEvent

SetDom(d) ==
    /\ active' = d.active
    /\ maxHeight' = d.maxHeight
    /\ transform' = d.transform

\* A click on item i's question.
ClickQuestion(i) ==
    /\ SetDom(OnClick(Dom, i))
    /\ event' = ClickEvent(i)
    /\ UNCHANGED contentHeight

\* Escape is pressed.
KeydownEscape ==
    /\ SetDom(OnEscape(Dom))
    /\ event' = KeyEvent("Escape", 0)
    /\ UNCHANGED contentHeight

\* Enter is pressed on item i's question: e.target.click().
KeydownEnter(i) ==
    /\ SetDom(OnClick(Dom, i))
    /\ event' = KeyEvent("Enter", i)
    /\ UNCHANGED contentHeight

----------------------------------------------------------------------------
(* debounce(func, wait) and throttle(func, limit).  Time advances in ticks; *)
(* a timer is due once its delay has run down to 0, and its callback runs   *)
(* then or later, never earlier.                                            *)

Delays == 1 .. MaxWait
Args   == {"a", "b"}

\* Every pending timer one tick closer to due.
Elapse(ts) == { [t EXCEPT !.delay = IF @ > 0 THEN @ - 1 ELSE 0] : t \in ts }

clearTimeout_Noop(ts, id) == ts

\* clearTimeout(id): the timer with that id, if still pending, is cancelled.
clearTimeout(ts, id) == { t \in ts : t.id # id }

\* setTimeout(later, wait), later closing over args.
setTimeout(ts, id, ms, a) == ts \cup { [id |-> id, delay |-> ms, args |-> a] }

DebounceIdle ==
    /\ wait = 0
    /\ timeout = 0
    /\ nextTimer = 1
    /\ laterTimers = {}
    /\ debounced = <<>>
    /\ dCalls = 0
    /\ sinceCall = 0
    /\ lastArgs = ""
    /\ ranSince = FALSE

\* debounce(func, wait) has returned executedFunction; timeout is undefined.
DebounceInit ==
    /\ wait \in Delays
    /\ timeout = 0
    /\ nextTimer = 1
    /\ laterTimers = {}
    /\ debounced = <<>>
    /\ dCalls = 0
    /\ sinceCall = 0
    /\ lastArgs = ""
    /\ ranSince = FALSE

\* executedFunction(...args): clearTimeout(timeout); timeout = setTimeout(later, wait).
ExecutedFunction(a) ==
    /\ dCalls < MaxCalls
    /\ laterTimers' = setTimeout(clearTimeout(laterTimers, timeout), nextTimer, wait, a)
    /\ timeout' = nextTimer
    /\ nextTimer' = nextTimer + 1
    /\ dCalls' = dCalls + 1
    /\ sinceCall' = 0
    /\ lastArgs' = a
    /\ ranSince' = FALSE
    /\ UNCHANGED <<wait, debounced>>

\* later(): clearTimeout(timeout); func(...args).
Later(t) ==
    /\ t \in laterTimers
    /\ t.delay = 0
    /\ laterTimers' = clearTimeout(laterTimers \ {t}, timeout)
    /\ debounced' = Append(debounced, t.args)
    /\ ranSince' = TRUE
    /\ UNCHANGED <<wait, timeout, nextTimer, dCalls, sinceCall, lastArgs>>

\* One tick passes.
DebounceTick ==
    /\ sinceCall < wait \/ \E t \in laterTimers : t.delay > 0
    /\ laterTimers' = Elapse(laterTimers)
    /\ sinceCall' = Min(sinceCall + 1, wait)
    /\ UNCHANGED <<wait, timeout, nextTimer, debounced, dCalls, lastArgs, ranSince>>

ThrottleDelay_Short(ms) == ms - 1

\* setTimeout(() => inThrottle = false, limit).
ThrottleDelay(ms) == ms

ThrottleIdle ==
    /\ limit = 0
    /\ inThrottle = FALSE
    /\ resetTimers = {}
    /\ throttled = <<>>
    /\ tCalls = 0
    /\ sinceRun = 0
    /\ lastCall = ""

\* throttle(func, limit) has returned its wrapper; inThrottle is undefined.
ThrottleInit ==
    /\ limit \in Delays
    /\ inThrottle = FALSE
    /\ resetTimers = {}
    /\ throttled = <<>>
    /\ tCalls = 0
    /\ sinceRun = limit
    /\ lastCall = ""

\* The wrapper: if (!inThrottle) { func.apply(context, args); inThrottle = true; setTimeout(...) }.
ThrottledFunction(a) ==
    /\ tCalls < MaxCalls
    /\ tCalls' = tCalls + 1
    /\ lastCall' = a
    /\ IF ~inThrottle
          THEN /\ throttled' = Append(throttled, a)
               /\ inThrottle' = TRUE
               /\ resetTimers' = setTimeout(resetTimers, tCalls + 1, ThrottleDelay(limit), "")
               /\ sinceRun' = 0
          ELSE UNCHANGED <<throttled, inThrottle, resetTimers, sinceRun>>
    /\ UNCHANGED limit

\* () => inThrottle = false.
ThrottleReset(t) ==
    /\ t \in resetTimers
    /\ t.delay = 0
    /\ inThrottle' = FALSE
    /\ resetTimers' = resetTimers \ {t}
    /\ UNCHANGED <<limit, throttled, tCalls, sinceRun, lastCall>>

\* One tick passes.
ThrottleTick ==
    /\ sinceRun < limit \/ \E t \in resetTimers : t.delay > 0
    /\ resetTimers' = Elapse(resetTimers)
    /\ sinceRun' = Min(sinceRun + 1, limit)
    /\ UNCHANGED <<limit, inThrottle, throttled, tCalls, lastCall>>

----------------------------------------------------------------------------
(* Newsletter page (app.js): initializeApp, handleSubscription,            *)
(* renderDashboard, unsubscribe and the simulated persistence.             *)

\* JavaScript values: null, undefined, and a subscription record.
Null      == [kind |-> "null", email |-> "", frequency |-> "", topics |-> <<>>,
              subscriptionDate |-> "", status |-> ""]
Undefined == [kind |-> "undefined", email |-> "", frequency |-> "", topics |-> <<>>,
              subscriptionDate |-> "", status |-> ""]

\* new Date().toISOString(), and its date part.
IsoNow == "2025-06-14T08:00:00.000Z"
Today  == "2025-06-14"

\* { email, frequency, topics, subscriptionDate, status: 'active' }.
Subscription(e, f, t) ==
    [kind |-> "object", email |-> e, frequency |-> f, topics |-> t,
     subscriptionDate |-> Today, status |-> "active"]

Emails      == {"", "a@x.io", "b@x.io"}
Frequencies == {"daily", "weekly"}
TopicLists  == {<<>>, <<"AI">>, <<"AI", "ESG">>}

\* What window.newsletterUser can hold when the page starts.
SavedUsers == {Undefined, Subscription("a@x.io", "weekly", <<"AI">>)}

NoForm == [email |-> "", frequency |-> "", topics |-> <<>>]

\* The dashboard as last rendered; the markup's own content before that.
Placeholder   == [view |-> "placeholder", user |-> Null]
ActivePanel(u) == [view |-> "active", user |-> u]
Unrendered    == [view |-> "unrendered", user |-> Null]

\* renderDashboard(): the placeholder when !currentUser.
renderDashboard(u) == IF u.kind = "object" THEN ActivePanel(u) ELSE Placeholder

\* getCurrentUser(): window.newsletterUser || null.
getCurrentUser(w) == IF w.kind = "object" THEN w ELSE Null

\* saveCurrentUser(user): window.newsletterUser = user.
saveCurrentUser(user) == user

clearCurrentUser_Keep(w) == w

\* clearCurrentUser(): delete window.newsletterUser.
clearCurrentUser(w) == Undefined

Rejected_EmailOnly(e, t) == e = ""

\* if (!email || selectedTopics.length === 0).
Rejected(e, t) == e = "" \/ Len(t) = 0

\* The POST body sent to the webhook.
WebhookBody(e, f, t) ==
    [email |-> e, topics |-> t, frequency |-> f, subscriptionDate |-> IsoNow,
     source |-> "insight_hub_web"]

WebhookOutcomes == {"ok", "notOk", "networkError"}

AfterCatch_Revert(u) == Null

\* .catch(error => alert(...)): currentUser is not touched.
AfterCatch(u) == u

NewsIdle ==
    /\ currentUser = Null
    /\ newsletterUser = Undefined
    /\ initialized = FALSE
    /\ formData = NoForm
    /\ webhooks = <<>>
    /\ alerts = [required |-> 0, webhook |-> 0]
    /\ toast = [show |-> FALSE, message |-> ""]
    /\ toastTimers = 0
    /\ dashboard = Unrendered
    /\ renders = 0
    /\ scrollTimers = 0
    /\ scrolledTo = ""
    /\ submits = 0
    /\ unsubscribes = 0

\* The script has loaded: let currentUser = null; DOMContentLoaded is still to come.
NewsInit ==
    /\ currentUser = Null
    /\ newsletterUser \in SavedUsers
    /\ initialized = FALSE
    /\ formData = NoForm
    /\ webhooks = <<>>
    /\ alerts = [required |-> 0, webhook |-> 0]
    /\ toast = [show |-> FALSE, message |-> ""]
    /\ toastTimers = 0
    /\ dashboard = Unrendered
    /\ renders = 0
    /\ scrollTimers = 0
    /\ scrolledTo = ""
    /\ submits = 0
    /\ unsubscribes = 0

\* initializeApp(): a saved user becomes currentUser and the dashboard is rendered.
initializeApp ==
    /\ ~initialized
    /\ initialized' = TRUE
    /\ LET savedUser == getCurrentUser(newsletterUser)
       IN  IF savedUser # Null
              THEN /\ currentUser' = savedUser
                   /\ dashboard' = renderDashboard(savedUser)
                   /\ renders' = renders + 1
              ELSE UNCHANGED <<currentUser, dashboard, renders>>
    /\ UNCHANGED <<newsletterUser, formData, webhooks, alerts, toast, toastTimers,
                   scrollTimers, scrolledTo, submits, unsubscribes>>

\* handleSubscription() with the form holding (e, f, t).
handleSubscription(e, f, t) ==
    /\ initialized
    /\ submits + unsubscribes < MaxUserOps
    /\ submits' = submits + 1
    /\ formData' = [email |-> e, frequency |-> f, topics |-> t]
    /\ IF Rejected(e, t)
          THEN /\ alerts' = [alerts EXCEPT !.required = @ + 1]
               /\ UNCHANGED <<currentUser, newsletterUser, webhooks, toast, toastTimers,
                              dashboard, renders, scrollTimers>>
          ELSE /\ currentUser' = Subscription(e, f, t)
               /\ newsletterUser' = saveCurrentUser(Subscription(e, f, t))
               /\ webhooks' = Append(webhooks, WebhookBody(e, f, t))
               /\ toast' = [toast EXCEPT !.show = TRUE]
               /\ toastTimers' = toastTimers + 1
               /\ dashboard' = renderDashboard(Subscription(e, f, t))
               /\ renders' = renders + 1
               /\ scrollTimers' = scrollTimers + 1
               /\ UNCHANGED alerts
    /\ UNCHANGED <<initialized, scrolledTo, unsubscribes>>

\* The webhook POST settles: .then throws on !response.ok, .catch alerts.
WebhookSettles(i, o) ==
    /\ i \in 1 .. Len(webhooks)
    /\ webhooks' = [k \in 1 .. Len(webhooks) - 1 |->
                       IF k < i THEN webhooks[k] ELSE webhooks[k + 1]]
    /\ IF o = "ok"
          THEN UNCHANGED <<alerts, currentUser>>
          ELSE /\ alerts' = [alerts EXCEPT !.webhook = @ + 1]
               /\ currentUser' = AfterCatch(currentUser)
    /\ UNCHANGED <<newsletterUser, initialized, formData, toast, toastTimers,
                   dashboard, renders, scrollTimers, scrolledTo, submits, unsubscribes>>

\* unsubscribe(), the user answering the confirm dialog with ok.
unsubscribe(ok) ==
    /\ initialized
    /\ submits + unsubscribes < MaxUserOps
    /\ unsubscribes' = unsubscribes + 1
    /\ IF ok
          THEN /\ currentUser' = Null
               /\ newsletterUser' = clearCurrentUser(newsletterUser)
               /\ dashboard' = renderDashboard(Null)
               /\ renders' = renders + 1
               /\ toast' = [show |-> TRUE, message |-> "unsubscribed"]
               /\ toastTimers' = toastTimers + 1
          ELSE UNCHANGED <<currentUser, newsletterUser, dashboard, renders, toast,
                           toastTimers>>
    /\ UNCHANGED <<initialized, formData, webhooks, alerts, scrollTimers, scrolledTo,
                   submits>>

\* setTimeout(() => toast.classList.remove('show'), 3000) fires.
ToastTimeout ==
    /\ toastTimers > 0
    /\ toastTimers' = toastTimers - 1
    /\ toast' = [toast EXCEPT !.show = FALSE]
    /\ UNCHANGED <<currentUser, newsletterUser, initialized, formData, webhooks, alerts,
                   dashboard, renders, scrollTimers, scrolledTo, submits, unsubscribes>>

\* setTimeout(() => scrollToSection('dashboard'), 1000) fires.
ScrollTimeout ==
    /\ scrollTimers > 0
    /\ scrollTimers' = scrollTimers - 1
    /\ scrolledTo' = "dashboard"
    /\ UNCHANGED <<currentUser, newsletterUser, initialized, formData, webhooks, alerts,
                   toast, toastTimers, dashboard, renders, submits, unsubscribes>>

\* The web pages before any of them is loaded.
WebIdle == FaqIdle /\ DebounceIdle /\ ThrottleIdle /\ NewsIdle

----------------------------------------------------------------------------

Init == ApiInit /\ CardIdle /\ UrlIdle /\ PipeIdle /\ WebIdle

\* One step of some worker's create_bookmark call.
Next ==
    \/ (\E w \in Workers, u \in Urls, usr \in Users : Receive(w, u, usr))
          /\ UNCHANGED <<cardVars, urlVars, pipeVars, webVars>>
    \/ (\E w \in Workers, r \in extract_page_data : CrawlFailed(w, r))
          /\ UNCHANGED <<cardVars, urlVars, pipeVars, webVars>>
    \/ (\E w \in Workers, r \in extract_page_data : CrawlKeyError(w, r))
          /\ UNCHANGED <<cardVars, urlVars, pipeVars, webVars>>
    \/ (\E w \in Workers, r \in extract_page_data : SaveOk(w, r))
          /\ UNCHANGED <<cardVars, urlVars, pipeVars, webVars>>
    \/ (\E w \in Workers, r \in extract_page_data : SaveFailed(w, r))
          /\ UNCHANGED <<cardVars, urlVars, pipeVars, webVars>>
    \/ (\E w \in Workers : Deliver(w))
          /\ UNCHANGED <<cardVars, urlVars, pipeVars, webVars>>
    \/ Tick /\ UNCHANGED <<cardVars, urlVars, pipeVars, webVars>>

Spec == Init /\ [][Next]_vars

InitCard == ApiInit /\ CardInit /\ UrlIdle /\ PipeIdle /\ WebIdle

NextCard == ComposeCard /\ UNCHANGED <<apiVars, urlVars, pipeVars, webVars>>

SpecCard == InitCard /\ [][NextCard]_vars

InitUrl == ApiInit /\ CardIdle /\ UrlInit /\ PipeIdle /\ WebIdle

NextUrl == CallIsUrl /\ UNCHANGED <<apiVars, cardVars, pipeVars, webVars>>

SpecUrl == InitUrl /\ [][NextUrl]_vars

InitPipe == ApiInit /\ CardIdle /\ UrlIdle /\ PipeInit /\ WebIdle

NextPipe ==
    \/ (\E r \in Requests, u \in RawUrls : Accept(r, u))
          /\ UNCHANGED <<apiVars, cardVars, urlVars, webVars>>
    \/ (\E r \in Requests : \E pd \in PageFetcher(link[r]) : FetchOk(r, pd))
          /\ UNCHANGED <<apiVars, cardVars, urlVars, webVars>>
    \/ (\E r \in Requests, f \in FetchFailures : FetchFails(r, f))
          /\ UNCHANGED <<apiVars, cardVars, urlVars, webVars>>
    \/ (\E r \in Requests, o \in SummaryOutcomes : SummaryReturns(r, o))
          /\ UNCHANGED <<apiVars, cardVars, urlVars, webVars>>
    \/ (\E r \in Requests : DeadlineExpires(r))
          /\ UNCHANGED <<apiVars, cardVars, urlVars, webVars>>
    \/ (\E r \in Requests : StartPersist(r))
          /\ UNCHANGED <<apiVars, cardVars, urlVars, webVars>>
    \/ (\E r \in Requests : PersistOk(r))
          /\ UNCHANGED <<apiVars, cardVars, urlVars, webVars>>
    \/ (\E r \in Requests : PersistFails(r))
          /\ UNCHANGED <<apiVars, cardVars, urlVars, webVars>>
    \/ (\E r \in Requests : StartCard(r))
          /\ UNCHANGED <<apiVars, cardVars, urlVars, webVars>>
    \/ (\E r \in Requests : Transmit(r))
          /\ UNCHANGED <<apiVars, cardVars, urlVars, webVars>>
    \/ (\E r \in Requests : Finish(r))
          /\ UNCHANGED <<apiVars, cardVars, urlVars, webVars>>
    \/ (\E k \in CacheKeys : Expire(k))
          /\ UNCHANGED <<apiVars, cardVars, urlVars, webVars>>

SpecPipe == InitPipe /\ [][NextPipe]_vars

InitFaq == ApiInit /\ CardIdle /\ UrlIdle /\ PipeIdle
           /\ FaqInit /\ DebounceIdle /\ ThrottleIdle /\ NewsIdle

NextFaq ==
    \/ (\E i \in Items : ClickQuestion(i))
          /\ UNCHANGED <<backVars, debounceVars, throttleVars, newsVars>>
    \/ KeydownEscape
          /\ UNCHANGED <<backVars, debounceVars, throttleVars, newsVars>>
    \/ (\E i \in Items : KeydownEnter(i))
          /\ UNCHANGED <<backVars, debounceVars, throttleVars, newsVars>>

SpecFaq == InitFaq /\ [][NextFaq]_vars

InitDebounce == ApiInit /\ CardIdle /\ UrlIdle /\ PipeIdle
                /\ FaqIdle /\ DebounceInit /\ ThrottleIdle /\ NewsIdle

CallDebounced  == (\E a \in Args : ExecutedFunction(a))
                     /\ UNCHANGED <<backVars, faqVars, throttleVars, newsVars>>
RunLater       == (\E t \in laterTimers : Later(t))
                     /\ UNCHANGED <<backVars, faqVars, throttleVars, newsVars>>
PassDebounce   == DebounceTick
                     /\ UNCHANGED <<backVars, faqVars, throttleVars, newsVars>>

NextDebounce == CallDebounced \/ RunLater \/ PassDebounce

SpecDebounce == InitDebounce /\ [][NextDebounce]_vars

\* Time passes and the event loop runs a due timer's callback.
SpecDebounceFair == SpecDebounce /\ WF_vars(PassDebounce) /\ WF_vars(RunLater)

InitThrottle == ApiInit /\ CardIdle /\ UrlIdle /\ PipeIdle
                /\ FaqIdle /\ DebounceIdle /\ ThrottleInit /\ NewsIdle

NextThrottle ==
    \/ (\E a \in Args : ThrottledFunction(a))
          /\ UNCHANGED <<backVars, faqVars, debounceVars, newsVars>>
    \/ (\E t \in resetTimers : ThrottleReset(t))
          /\ UNCHANGED <<backVars, faqVars, debounceVars, newsVars>>
    \/ ThrottleTick
          /\ UNCHANGED <<backVars, faqVars, debounceVars, newsVars>>

SpecThrottle == InitThrottle /\ [][NextThrottle]_vars

InitNews == ApiInit /\ CardIdle /\ UrlIdle /\ PipeIdle
            /\ FaqIdle /\ DebounceIdle /\ ThrottleIdle /\ NewsInit

NextNews ==
    \/ initializeApp
          /\ UNCHANGED <<backVars, faqVars, debounceVars, throttleVars>>
    \/ (\E e \in Emails, f \in Frequencies, t \in TopicLists : handleSubscription(e, f, t))
          /\ UNCHANGED <<backVars, faqVars, debounceVars, throttleVars>>
    \/ (\E i \in 1 .. Len(webhooks), o \in WebhookOutcomes : WebhookSettles(i, o))
          /\ UNCHANGED <<backVars, faqVars, debounceVars, throttleVars>>
    \/ (\E ok \in BOOLEAN : unsubscribe(ok))
          /\ UNCHANGED <<backVars, faqVars, debounceVars, throttleVars>>
    \/ ToastTimeout
          /\ UNCHANGED <<backVars, faqVars, debounceVars, throttleVars>>
    \/ ScrollTimeout
          /\ UNCHANGED <<backVars, faqVars, debounceVars, throttleVars>>

SpecNews == InitNews /\ [][NextNews]_vars

----------------------------------------------------------------------------
(* Properties of POST /api/bookmarks. *)

RowsOf(usr, u) == { i \in DOMAIN bookmarks : bookmarks[i].user_id = usr /\ bookmarks[i].url = u }

Finished(w)    == pc[w] = "done"
FetchFailed(w) == Finished(w) /\ crawl[w].error \in CrawlErrors
Saved(w)       == Finished(w) /\ store[w] = "ok"

\* Two requests overlap when each arrived before the other one's insert.
Overlap(w1, w2) ==
    /\ Saved(w1) /\ Saved(w2)
    /\ req[w1].started <= resp[w2].bookmark.created_at
    /\ req[w2].started <= resp[w1].bookmark.created_at

\* C1: for every owner and URL the store never holds more than one row for
\* that pair, however many saves have run: a repeated save creates no second
\* row.
C1_OneRowPerOwnerUrl ==
    \A usr \in Users, u \in Urls : Cardinality(RowsOf(usr, u)) <= 1

\* C2: two overlapping saves of the same (owner, url) whose crawl and insert
\* both go through end with status 200 and leave exactly one row for the pair.
C2_ConcurrentSavesOneRow ==
    \A w1, w2 \in Workers :
        (w1 # w2 /\ Overlap(w1, w2)
           /\ req[w1].url = req[w2].url /\ req[w1].user_id = req[w2].user_id)
        => /\ resp[w1].status = 200
           /\ resp[w2].status = 200
           /\ Cardinality(RowsOf(req[w1].user_id, req[w1].url)) = 1

\* C3: a request whose fetch ended in a timeout or an error is not failed, and
\* a bookmark carrying the raw URL is persisted for it all the same.
C3_FetchFailureStillSaves ==
    \A w \in Workers :
        FetchFailed(w) => /\ resp[w].status = 200
                          /\ RowsOf(req[w].user_id, req[w].url) # {}

\* C8: a request ends in an error response exactly when the store was
\* unavailable: a storage failure is terminal, a fetch failure never is.
C8_OnlyStorageFailureIsTerminal ==
    \A w \in Workers :
        Finished(w) => /\ (store[w] = "unavailable" => resp[w].status >= 400)
                       /\ (FetchFailed(w) => resp[w].status < 400)

\* C9: when the save fails the request still succeeds (the card is produced
\* and sent), and no failure other than the store's reaches the caller.
C9_SaveFailureStillSendsCard ==
    \A w \in Workers :
        Finished(w) => /\ (store[w] = "unavailable" => resp[w].status = 200)
                       /\ (resp[w].status >= 400 => store[w] = "unavailable")

TtlHours      == 24

\* A request for URL u is accepted in this step.
Arrives(u) == \E w \in Workers : pc[w] = "idle" /\ pc'[w] = "crawling" /\ req'[w].url = u

\* The page data of u was last obtained at most TtlHours ago.
Fresh(u) == lastCrawl[u] >= 0 /\ clock - lastCrawl[u] <= TtlHours

\* C17: a request for a URL whose page data was obtained within the last 24
\* hours does not crawl it again, and a request after that time does.
C17_NoRecrawlWithinTtl ==
    [][\A u \in Urls : Arrives(u) => IF Fresh(u) THEN crawls' = crawls
                                               ELSE crawls' = crawls + 1]_vars

\* C19: a save for an (owner, url) that already has a row changes that row in
\* place (same id, notes and tags kept, updated_at advanced) and adds none; a
\* save for a new pair adds one row with a fresh id in the default folder.
C19_UpsertMergesOrCreates ==
    [][\A w \in Workers :
          (pc[w] = "crawling" /\ pc'[w] = "done" /\ store'[w] = "ok") =>
              LET old == RowsOf(req[w].user_id, req[w].url) IN
              IF old # {}
              THEN /\ Len(bookmarks') = Len(bookmarks)
                   /\ \A i \in old : /\ bookmarks'[i].id = bookmarks[i].id
                                     /\ bookmarks'[i].notes = bookmarks[i].notes
                                     /\ bookmarks'[i].tags = bookmarks[i].tags
                                     /\ bookmarks'[i].updated_at > bookmarks[i].updated_at
              ELSE /\ Len(bookmarks') = Len(bookmarks) + 1
                   /\ bookmarks'[Len(bookmarks')].id \notin { bookmarks[i].id : i \in DOMAIN bookmarks }
                   /\ Truthy(bookmarks'[Len(bookmarks')].folder_id)]_vars

\* C21: when extract_page_data reports failure the response has status 400
\* and the request has inserted no row.
C21_FetchFailureIs400 ==
    \A w \in Workers :
        FetchFailed(w) => /\ resp[w].status = 400
                          /\ store[w] # "ok"
                          /\ resp[w].bookmark = NoRow

----------------------------------------------------------------------------
(* Properties of create_bookmark_card. *)

Emitted == cardPc = "returned" /\ card.ok

IsPrefix(s, t) == Len(s) <= Len(t) /\ s = SubSeq(t, 1, Len(s))

\* t is s itself when s fits the limit, and starts with the first
\* PreviewLimit codepoints of s otherwise.
CutFrom(t, s) == /\ IsPrefix(Take(s, PreviewLimit), t)
                 /\ (Len(s) <= PreviewLimit => t = s)

\* C4: every emitted card has a non-empty image URL: the hero image when there
\* is one, else the page-preview image when there is one, else the default icon.
C4_ImageNeverEmpty ==
    Emitted =>
        /\ Truthy(card.hero)
        /\ Truthy(bookmark_data.image_url) => card.hero = bookmark_data.image_url
        /\ (~Truthy(bookmark_data.image_url) /\ Truthy(bookmark_data.preview_image))
              => card.hero = bookmark_data.preview_image
        /\ (~Truthy(bookmark_data.image_url) /\ ~Truthy(bookmark_data.preview_image))
              => card.hero = Str(DefaultIcon)

\* C4 witness: a card emitted for an input whose image_url is None and whose
\* preview_image is missing, carrying the default icon.
C4_Witness ==
    /\ Emitted
    /\ bookmark_data.image_url = PyNone
    /\ bookmark_data.preview_image = Absent
    /\ card.hero = Str(DefaultIcon)

\* C5: the preview text of every emitted card has at most 100 codepoints and
\* is a run of whole codepoints from the start of an input text.
C5_PreviewAtMost100 ==
    Emitted =>
        /\ Len(card.text.v) <= PreviewLimit
        /\ \/ card.text.v = <<>>
           \/ IsPrefix(card.text.v, bookmark_data.content_markdown.v)
           \/ IsPrefix(card.text.v, bookmark_data.description.v)

C7_ComposerNeverFails ==
    cardPc = "returned" =>
        /\ card.ok
        /\ Truthy(card.hero)
        /\ Truthy(card.title)
        /\ Truthy(card.text)

\* The buttons of the emitted card with a given style / a given label.
WithStyle(st) == { i \in DOMAIN card.buttons : card.buttons[i].style = st }
WithLabel(lb) == { i \in DOMAIN card.buttons : card.buttons[i].label = lb }

\* C11 as stated: every emitted card has exactly one primary action, which
\* opens the original URL, and exactly one secondary action for each of edit
\* and save.
C11_PrimaryOpensUrl ==
    Emitted =>
        /\ Cardinality(WithStyle("primary")) = 1
        /\ \A i \in WithStyle("primary") :
              card.buttons[i].type = "uri" /\ card.buttons[i].target = Format(bookmark_data.url)
        /\ \A lb \in {"edit", "save"} :
              Cardinality(WithLabel(lb) \cap WithStyle("secondary")) = 1

\* C11 as amended: every emitted card has the same three actions whatever the
\* page data: exactly one primary action, which opens the edit page of the
\* bookmark, and exactly two secondary actions, one opening the original URL
\* and one posting back the save of the bookmark.
C11_PrimaryOpensEditPage ==
    Emitted =>
        /\ Len(card.buttons) = 3
        /\ Cardinality(WithStyle("primary")) = 1
        /\ Cardinality(WithStyle("secondary")) = 2
        /\ \A i \in WithStyle("primary") :
              /\ card.buttons[i].label = "edit"
              /\ card.buttons[i].type = "uri"
              /\ card.buttons[i].target = EditPrefix \o Format(bookmark_data.id)
        /\ \E i \in WithStyle("secondary") :
              /\ card.buttons[i].label = "read"
              /\ card.buttons[i].type = "uri"
              /\ card.buttons[i].target = Format(bookmark_data.url)
        /\ \E i \in WithStyle("secondary") :
              /\ card.buttons[i].label = "save"
              /\ card.buttons[i].type = "postback"
              /\ card.buttons[i].target = SavePrefix \o Format(bookmark_data.id)

\* C11 witness: a card emitted for an input with no image, no description and
\* an empty content, still carrying the primary edit button.
C11_Witness ==
    /\ Emitted
    /\ bookmark_data.image_url = Absent
    /\ bookmark_data.description = Absent
    /\ bookmark_data.content_markdown = Str(<<>>)
    /\ \E i \in DOMAIN card.buttons :
          card.buttons[i].style = "primary" /\ card.buttons[i].label = "edit"

\* C12: whenever nothing but the title is missing from the input, a card is
\* emitted whose title is the input's title when there is one and the bare URL
\* otherwise.
C12_TitleOrUrl ==
    (/\ cardPc = "returned"
     /\ IsStr(CardMainContent(bookmark_data))
     /\ bookmark_data.id # Absent
     /\ bookmark_data.url # Absent)
    => /\ card.ok
       /\ Truthy(bookmark_data.title) => card.title = bookmark_data.title
       /\ ~Truthy(bookmark_data.title) => card.title = bookmark_data.url

----------------------------------------------------------------------------
(* Properties of is_url. *)

MaxUrls == 3

Range(q) == { q[i] : i \in DOMAIN q }

\* Keep a finished URL unless it is empty, a repeat, or past the cap.
Flush(acc, cur) ==
    IF cur = <<>> \/ cur \in Range(acc) \/ Len(acc) >= MaxUrls THEN acc ELSE Append(acc, cur)

\* An accepted scheme directly followed by something that is not whitespace.
OpensUrl(ws, k) == /\ ws[k] \in {WHttp, WHttps}
                   /\ k < Len(ws)
                   /\ ws[k + 1] \notin {WSpace, WIdeoSp}

\* The HTTP(S) URLs of a message, piece by piece: in order of first
\* occurrence, without repeats, at most MaxUrls of them.
RECURSIVE UrlsFrom(_, _, _, _)
UrlsFrom(ws, k, cur, acc) ==
    IF k > Len(ws) THEN Flush(acc, cur)
    ELSE IF ws[k] \in {WSpace, WIdeoSp} THEN UrlsFrom(ws, k + 1, <<>>, Flush(acc, cur))
    ELSE IF cur # <<>> THEN UrlsFrom(ws, k + 1, cur \o ws[k], acc)
    ELSE IF OpensUrl(ws, k) THEN UrlsFrom(ws, k + 1, ws[k], acc)
    ELSE UrlsFrom(ws, k + 1, <<>>, acc)

HttpUrls(ws) == UrlsFrom(ws, 1, <<>>, <<>>)

\* The URLs a return value lists; a truth value lists none.
UrlsReturned == IF urlRet.k = "list" THEN urlRet.v ELSE <<>>

----------------------------------------------------------------------------
(* Properties of the Pipeline Orchestrator and the Dedup/Cache Store. *)

Rank(s) == CASE s = "Idle"        -> 0
             [] s = "Fetching"    -> 1
             [] s = "Summarizing" -> 2
             [] s = "Composing"   -> 3
             [] s = "Done"        -> 4

DeadlineHit(r) == fetchOut[r] = "DeadlineExceeded" \/ sumOut[r] = "DeadlineExceeded"

Present(e) == e.page # NoPage

\* C13: within one request the stages only move forward, Fetching before
\* Summarizing before Composing: Summarizing starts only after the fetch has
\* ended, and Composing starts only after summarizing has ended or was skipped.
C13_StagesOrdered ==
    [][\A r \in Requests :
          stage'[r] # stage[r] =>
              /\ stage[r] = "Done" \/ Rank(stage'[r]) > Rank(stage[r])
              /\ stage'[r] = "Summarizing" => fetchOut'[r] # "none"
              /\ stage'[r] = "Composing" =>
                     fetchOut'[r] # "none" /\ sumOut'[r] # "none"]_vars

\* A request that fetched, then summarized, is now composing.
C13_Witness ==
    \E r \in Requests :
        /\ stage[r] = "Composing"
        /\ served[r] = "fetcher"
        /\ sumOut[r] = "SummaryOk"

\* C14: the Summarizer runs, or has run, only for a request whose fetch ended
\* in FetchOk with non-empty contentText; a FetchOk with empty contentText goes
\* to Composing with the summary Skipped.
C14_SummarizerOnlyWithContent ==
    \A r \in Requests :
        /\ (stage[r] = "Summarizing" \/ sumOut[r] \in SummaryOutcomes) =>
               fetchOut[r] = "FetchOk" /\ page[r].contentText # ""
        /\ (fetchOut[r] = "FetchOk" /\ page[r].contentText = "") =>
               stage[r] = "Composing" /\ sumOut[r] = "Skipped"

\* A page fetched with empty contentText had its card sent without a summary.
C14_Witness ==
    \E r \in Requests :
        /\ fetchOut[r] = "FetchOk"
        /\ served[r] = "fetcher"
        /\ page[r].contentText = ""
        /\ sumOut[r] = "Skipped"
        /\ send[r] = "sent"

\* C15: a request is Done only when its card was transmitted and its upsert
\* has ended, and the caller is told the bookmark is saved only when the
\* upsert succeeded.
C15_DoneAfterBoth ==
    \A r \in Requests :
        /\ stage[r] = "Done" => send[r] = "sent" /\ persist[r] \in {"ok", "failed"}
        /\ result[r] = "saved" => persist[r] = "ok" /\ saved # {}

\* One request started its upsert before its card, another its card before
\* its upsert.
C15_Witness ==
    \E r1, r2 \in Requests :
        /\ stage[r1] = "Composing" /\ persist[r1] = "running" /\ send[r1] = "notStarted"
        /\ stage[r2] = "Composing" /\ persist[r2] = "notStarted" /\ send[r2] = "composing"

----------------------------------------------------------------------------
(* Properties of the FAQ accordion. *)

ActiveItems == {i \in Items : active[i]}

\* C22: a click on an inactive question leaves exactly that item active, with
\* its answer at the content height and every item it closed at 0px; a click
\* on the active question leaves no item active; and no step takes the page
\* from at most one active item to more than one.
C22_AtMostOneActive ==
    /\ [](event.type = "click" => Cardinality(ActiveItems) <= 1)
    /\ [][/\ \A i \in Items :
                event' = ClickEvent(i) =>
                    /\ ActiveItems' = IF active[i] THEN {} ELSE {i}
                    /\ ~active[i] => maxHeight'[i] = contentHeight[i]
                    /\ \A j \in ActiveItems : ~active'[j] => maxHeight'[j] = Px(0)
          /\ Cardinality(ActiveItems) <= 1 => Cardinality(ActiveItems') <= 1]_vars

\* A click has opened one item and an item that was open before it is closed.
C22_Witness ==
    \E i, j \in Items :
        /\ i # j
        /\ event = ClickEvent(i)
        /\ ActiveItems = {i}
        /\ maxHeight[i] = Px(48)
        /\ contentHeight[j] = Px(48)
        /\ maxHeight[j] = Px(0)

\* C23: an item without the class 'active' never has its answer's max-height
\* at an expanded height: it is unassigned or 0px.
C23_ExpandedOnlyWhenActive ==
    \A i \in Items : ~active[i] => maxHeight[i] \in {NoValue, Px(0)}

----------------------------------------------------------------------------
(* Properties of debounce and throttle. *)

\* C27: func runs only when wait ticks have passed since the last call, with
\* that call's arguments, and at most once per burst; and after a call func
\* does eventually run.
C27_DebounceRunsOnceAfterQuiet ==
    /\ [][debounced' # debounced =>
              /\ debounced' = Append(debounced, lastArgs)
              /\ sinceCall = wait
              /\ ~ranSince]_vars
    /\ ((dCalls > 0 /\ ~ranSince) ~> ranSince)

\* A burst of three calls ended in one run, with the last call's arguments.
C27_Witness ==
    /\ dCalls = 3
    /\ lastArgs = "b"
    /\ debounced = <<"b">>

\* C28: a call made while not throttled runs func at once, a call made less
\* than limit ticks after a run does not run it, and func only ever runs in
\* the step of a call, at least limit ticks after its previous run.
C28_ThrottleDropsWithinLimit ==
    [][/\ (tCalls' # tCalls /\ ~inThrottle) => throttled' = Append(throttled, lastCall')
       /\ (tCalls' # tCalls /\ sinceRun < limit) => throttled' = throttled
       /\ throttled' # throttled => (tCalls' # tCalls /\ sinceRun = limit)]_vars

\* Of three calls one was dropped and two ran.
C28_Witness ==
    /\ tCalls = 3
    /\ throttled = <<"a", "b">>
    /\ lastCall = "b"
    /\ inThrottle

----------------------------------------------------------------------------
(* Properties of the newsletter page. *)

RejectedForm(fd) == fd.email = "" \/ Len(fd.topics) = 0

\* C24: once initializeApp has run, currentUser and window.newsletterUser are
\* both absent or are the same subscription record.
C24_CurrentUserMatchesSaved ==
    initialized =>
        \/ currentUser = Null /\ newsletterUser = Undefined
        \/ currentUser.kind = "object" /\ newsletterUser = currentUser

\* A subscription was made and then cancelled.
C24_Witness ==
    /\ initialized
    /\ submits = 1
    /\ unsubscribes = 1
    /\ ~RejectedForm(formData)
    /\ currentUser = Null
    /\ newsletterUser = Undefined
    /\ dashboard = Placeholder

\* C25: a handleSubscription call that reads an empty email or no topic
\* leaves currentUser, the saved user, the webhook requests, the toast and
\* the dashboard as they were.
C25_RejectedSubmitChangesNothing ==
    [][(submits' # submits /\ RejectedForm(formData')) =>
           UNCHANGED <<currentUser, newsletterUser, webhooks, toast, toastTimers,
                       dashboard, renders>>]_vars

\* A subscription is in place and a later submit with no topic was rejected.
C25_Witness ==
    /\ submits = 2
    /\ alerts.required = 1
    /\ formData.email # ""
    /\ formData.topics = <<>>
    /\ currentUser.kind = "object"
    /\ newsletterUser = currentUser

\* C26: a valid handleSubscription records the subscription, shows the toast
\* and the active dashboard while its webhook request is still in flight, and
\* the settling of a webhook request, whatever its outcome, changes neither
\* currentUser nor the saved user nor the dashboard.
C26_SubscriptionSurvivesWebhook ==
    [][/\ (submits' # submits /\ ~RejectedForm(formData')) =>
              /\ currentUser' = Subscription(formData'.email, formData'.frequency,
                                             formData'.topics)
              /\ newsletterUser' = currentUser'
              /\ toast'.show
              /\ dashboard' = ActivePanel(currentUser')
              /\ Len(webhooks') = Len(webhooks) + 1
       /\ Len(webhooks') < Len(webhooks) =>
              /\ UNCHANGED <<currentUser, newsletterUser, dashboard, toast>>
              /\ alerts'.webhook \in {alerts.webhook, alerts.webhook + 1}]_vars

\* The webhook request failed and the subscription is still there.
C26_Witness ==
    /\ alerts.webhook = 1
    /\ webhooks = <<>>
    /\ currentUser.kind = "object"
    /\ newsletterUser = currentUser
    /\ dashboard = ActivePanel(currentUser)

============================================================================
